---- MODULE Spec2Model ----
(***************************************************************************)
(* Signal-to-order pipeline of the Bybit spot trading bot.                 *)
(*                                                                         *)
(* One inbound POST /webhook request is followed from the moment Flask     *)
(* hands it to webhook_handler until the HTTP response is returned.  The   *)
(* handler steps are cut at the points where the environment answers: the  *)
(* clock read of validate_timestamp and every invocation of a pybit client *)
(* method inside BybitTrader._with_retry.                                  *)
(*                                                                         *)
(* Numbers.  USDT amounts and prices are integers.  Base-asset quantities  *)
(* are counted in units of 1/QtyScale of a coin and divided exactly, except *)
(* where the binary64 quotient of _round_step is known to differ from the  *)
(* exact one (QuotientFallsShort).                                         *)
(***************************************************************************)
EXTENDS Integers, Sequences, FiniteSets, TLC

(***************************************************************************)
(* Values of JSON fields, HTTP headers and configuration attributes.       *)
(* A value is absent, a string or a number.                                *)
(***************************************************************************)
Absent == [t |-> "absent", s |-> "", n |-> 0]
Str(x) == [t |-> "str", s |-> x, n |-> 0]
Num(x) == [t |-> "num", s |-> "", n |-> x]

\* Python truthiness of an optional header string / optional number.
Truthy(v) == \/ v.t = "str" /\ v.s # ""
             \/ v.t = "num" /\ v.n # 0

\* str(x).lower() and str(x).upper() on the strings that occur.
Lower(x) == CASE x = "CLOSE" -> "close"
              [] x = "Limit" -> "limit"
              [] x = "SHORT" -> "short"
              [] OTHER -> x

Upper(x) == CASE x = "btcusdt" -> "BTCUSDT"
              [] OTHER -> x

Capitalize(x) == CASE x = "buy" -> "Buy"
                   [] x = "sell" -> "Sell"
                   [] x = "market" -> "Market"
                   [] x = "limit" -> "Limit"
                   [] OTHER -> x

\* float(x): numbers convert, the strings that occur are not numeric.
FloatRaises(v) == v.t # "num"
Float(v) == v.n

(***************************************************************************)
(* Config (config/config.py).                                              *)
(***************************************************************************)
WEBHOOK_SECRET == "change_me"
WEBHOOK_MAX_SKEW_SECONDS == 300
DEFAULT_ORDER_TYPE == "market"
MAX_ORDER_SIZE_USDT == 10000
MIN_ORDER_SIZE_USDT == 5

(***************************************************************************)
(* Exceptions.  A venue fault carries the attempt that raised it, which    *)
(* tells the exception objects of one retried call apart.                  *)
(***************************************************************************)
NoExc == [class |-> "", attempt |-> 0]
Exc(c) == [class |-> c, attempt |-> 0]
VenueExc(c, k) == [class |-> c, attempt |-> k]
VenueErrorClasses == {"ConnectionError", "InvalidRequestError"}

VARIABLES
    WEBHOOK_AUTH_DISABLED,  \* Config.WEBHOOK_AUTH_DISABLED
    DEFAULT_AMOUNT_USDT,    \* Config.DEFAULT_AMOUNT_USDT
    test_mode,              \* BybitTrader.test_mode (Config.TEST)
    request,                \* raw body and headers of the request being handled
    now_ms,                 \* the clock as validate_timestamp read it (0: not read)
    data,                   \* the parsed JSON body
    payload,                \* the validated SignalPayload
    pc,                     \* where the handler is
    attempt,                \* _with_retry: loop variable
    delay,                  \* _with_retry: the next backoff in milliseconds
    sleeps,                 \* _with_retry: the time.sleep calls of the current call
    invoked,                \* _with_retry: invocations of fn in the current call
    raised,                 \* the exception the last invocation of fn raised
    outcome,                \* how the last _with_retry call ended, and what fn returned
    sizing,                 \* locals of notional_to_qty
    params,                 \* place_order: the parameters built for the client
    calls,                  \* the pybit client methods invoked so far
    orders,                 \* the parameters passed to client.place_order
    accepted,               \* orders the venue accepted
    venue,                  \* the instrument as the venue lists it (from first contact)
    account,                \* the base asset the venue holds and has sold for the account
    peer,                   \* the locals of a second handler thread, while it is not running
    notifications,          \* the notifier calls made, in order
    response                \* the HTTP response

cfgVars == <<WEBHOOK_AUTH_DISABLED, DEFAULT_AMOUNT_USDT, test_mode>>
reqVars == <<request, now_ms, data, payload>>
retryVars == <<attempt, delay, sleeps, invoked, raised, outcome>>
venueVars == <<calls, orders, accepted, venue, account>>
outVars == <<notifications, response>>
vars == <<cfgVars, reqVars, pc, retryVars, sizing, params, venueVars, outVars, peer>>

(***************************************************************************)
(* Requests.                                                               *)
(***************************************************************************)
\* hmac.new(secret, raw_body, sha256).hexdigest(): a digest is determined by,
\* and determines, the secret and the bytes.
Hmac(secret, raw_body) == <<secret, raw_body>>
NoSig == <<>>

ClaimedTsMs == 1000000
MaxSkewMs == WEBHOOK_MAX_SKEW_SECONDS * 1000

NoFields == [key |-> Absent, action |-> Absent, symbol |-> Absent,
             order_type |-> Absent, direction |-> Absent,
             limit_price |-> Absent, amount_usdt |-> Absent]

\* The JSON objects sent.  A field that parse_and_validate_payload returns
\* before reading is left out of the object.
ObjectFields ==
    LET Keys == {Absent, Str(WEBHOOK_SECRET), Str("guess")}
        NoAction == {[NoFields EXCEPT !.key = k] : k \in Keys}
        WithAction == {[f EXCEPT !.action = a, !.symbol = s] :
                         f \in NoAction,
                         a \in {Str("open"), Str("CLOSE"), Str("hold")},
                         s \in {Absent, Str("btcusdt")}}
        Known == {f \in WithAction : f.symbol # Absent /\ f.action # Str("hold")}
        Typed == {[f EXCEPT !.order_type = o] :
                         f \in Known, o \in {Str("Limit"), Str("stop")}}
        Opens == {f \in Known \cup Typed :
                         f.action = Str("open") /\ f.order_type # Str("stop")}
        Sized == {[f EXCEPT !.direction = d, !.limit_price = p, !.amount_usdt = a] :
                         f \in Opens,
                         d \in {Absent, Str("SHORT"), Str("up")},
                         p \in {Absent, Num(100), Str("abc")},
                         a \in {Absent, Num(999)}}
    IN NoAction \cup WithAction \cup Typed \cup Sized

Bodies ==
    {[kind |-> k, f |-> NoFields] : k \in {"badjson", "nonutf8", "list", "number"}}
    \cup {[kind |-> "object", f |-> f] : f \in ObjectFields}

Signatures(raw) == {NoSig, Hmac(WEBHOOK_SECRET, raw), Hmac("guess", raw)}

TsHeaders == {Absent, Str("abc"), Num(ClaimedTsMs)}

Requests == UNION {{[raw |-> b, sig |-> s, ts_header |-> h] :
                       s \in Signatures(b), h \in TsHeaders} : b \in Bodies}

Consumed == [raw |-> [kind |-> "consumed", f |-> NoFields], sig |-> NoSig,
             ts_header |-> Absent]

NoData == [type |-> "none", f |-> NoFields]
NoPayload == [action |-> "", symbol |-> "", order_type |-> "",
              direction |-> Absent, amount_usdt |-> Absent, limit_price |-> Absent]
NoQty == [num |-> 0, den |-> 1]
NoResponse == [status |-> 0, error |-> "", result |-> ""]
NoSizing == [lot |-> 0, min_qty |-> 0, bid |-> Absent, ask |-> Absent, price |-> 0,
             required_usdt |-> 0, qty |-> NoQty, err |-> ""]
NoReturn == [state |-> "none", exc |-> NoExc, found |-> FALSE, lot |-> 0, min_qty |-> 0,
             bid |-> Absent, ask |-> Absent, last |-> Absent, coins |-> <<>>]
NoParams == [symbol |-> "", side |-> "", orderType |-> "", timeInForce |-> "",
             marketUnit |-> "", qty |-> NoQty, price |-> Absent]
NoVenue == [listed |-> FALSE, lot |-> 0, min_qty |-> 0, min_notional |-> 0]
\* The account is not followed: the wallet is whatever each answer says.
NoAccount == [tracked |-> FALSE, free |-> 0, sold |-> 0]
\* No second handler: its locals are those of a handler that has returned.
NoPeer == [request |-> Consumed, now_ms |-> 0, data |-> NoData, payload |-> NoPayload,
           pc |-> "Done", attempt |-> 0, delay |-> 0, sleeps |-> <<>>, invoked |-> 0,
           raised |-> NoExc, outcome |-> NoReturn, sizing |-> NoSizing,
           params |-> NoParams, response |-> NoResponse]

\* Config.DEFAULT_AMOUNT_USDT: a float, or (by assignment to the class
\* attribute) a value float() refuses.
ConfiguredAmounts ==
    {Str("abc"), Num(0), Num(MIN_ORDER_SIZE_USDT - 1), Num(MIN_ORDER_SIZE_USDT),
     Num(50), Num(MAX_ORDER_SIZE_USDT), Num(MAX_ORDER_SIZE_USDT + 1)}

Init ==
    /\ WEBHOOK_AUTH_DISABLED \in BOOLEAN
    /\ DEFAULT_AMOUNT_USDT \in ConfiguredAmounts
    /\ test_mode \in BOOLEAN
    /\ request \in Requests
    /\ now_ms = 0
    /\ data = NoData
    /\ payload = NoPayload
    /\ pc = "Received"
    /\ attempt = 0
    /\ delay = 0
    /\ sleeps = <<>>
    /\ invoked = 0
    /\ raised = NoExc
    /\ outcome = NoReturn
    /\ sizing = NoSizing
    /\ params = NoParams
    /\ calls = {}
    /\ orders = <<>>
    /\ accepted = 0
    /\ venue = NoVenue
    /\ account = NoAccount
    /\ peer = NoPeer
    /\ notifications = <<>>
    /\ response = NoResponse

(***************************************************************************)
(* Notifier (modules/telegram_bot.py).  _send swallows every delivery      *)
(* failure, so a notifier call never raises into the handler.              *)
(***************************************************************************)
send_error_notification(ns, text, exc) ==
    Append(ns, [kind |-> "error", text |-> text, exc |-> exc])

send_signal_notification_dropped(ns, p) == ns

send_signal_notification(ns, p) ==
    Append(ns, [kind |-> "signal", text |-> p.action, exc |-> NoExc])

send_order_notification(ns, status) ==
    Append(ns, [kind |-> "order", text |-> status, exc |-> NoExc])

(***************************************************************************)
(* How webhook_handler ends.                                               *)
(***************************************************************************)
FailSilent(status, err, text) ==
    /\ UNCHANGED notifications
    /\ response' = [status |-> status, error |-> err, result |-> ""]
    /\ pc' = "Done"

\* log_error; notifier.send_error_notification(text); return jsonify({"error": err}), status
Fail(status, err, text) ==
    /\ notifications' = send_error_notification(notifications, text, NoExc)
    /\ response' = [status |-> status, error |-> err, result |-> ""]
    /\ pc' = "Done"

UnhandledSilent(exc) ==
    /\ UNCHANGED notifications
    /\ response' = [status |-> 500, error |-> "internal_error", result |-> ""]
    /\ pc' = "Done"

\* except Exception as exc: the handler of last resort
Unhandled(exc) ==
    /\ notifications' = send_error_notification(notifications, "Unhandled error", exc)
    /\ response' = [status |-> 500, error |-> "internal_error", result |-> ""]
    /\ pc' = "Done"

\* log_order; notifier.send_order_notification({...}); return jsonify({"status": "ok", ...}), 200
Succeed(status) ==
    /\ notifications' = send_order_notification(notifications, status)
    /\ response' = [status |-> 200, error |-> "", result |-> status]
    /\ pc' = "Done"

(***************************************************************************)
(* Authentication (webhook_server.py, lines 14-26 and 98-141).             *)
(***************************************************************************)
verify_hmac(raw_body, provided_sig_hex, secret) ==
    Hmac(secret, raw_body) = provided_sig_hex

Abs(x) == IF x < 0 THEN -x ELSE x

validate_timestamp_strict(ts_ms, max_skew_seconds, now) ==
    \/ ts_ms = Absent
    \/ Abs(now - ts_ms.n) < max_skew_seconds * 1000

validate_timestamp(ts_ms, max_skew_seconds, now) ==
    \/ ts_ms = Absent
    \/ Abs(now - ts_ms.n) <= max_skew_seconds * 1000

\* The readings of time.time() around the claimed timestamp.
ClockReadings == {ClaimedTsMs - MaxSkewMs - 1, ClaimedTsMs - MaxSkewMs,
                  ClaimedTsMs + MaxSkewMs, ClaimedTsMs + MaxSkewMs + 1}

\* int(ts_header) raises ValueError on a header that is no integer.
IntRaises(h) == h.t = "str"

\* raw.decode("utf-8") and json.loads
DecodeRaises(raw) == raw.kind = "nonutf8"
JsonRaises(raw) == raw.kind = "badjson"
JsonLoads(raw) ==
    [type |-> CASE raw.kind = "object" -> "dict"
                [] raw.kind = "list" -> "list"
                [] OTHER -> "int",
     f |-> raw.f]

\* try: data = json.loads(raw.decode("utf-8")) except json.JSONDecodeError: ...
LoadJson(raw, text) ==
    IF DecodeRaises(raw) THEN Unhandled(Exc("UnicodeDecodeError")) /\ UNCHANGED data
    ELSE IF JsonRaises(raw) THEN Fail(400, "bad_json", text) /\ UNCHANGED data
    ELSE /\ data' = JsonLoads(raw)
         /\ pc' = "Authenticated"
         /\ UNCHANGED outVars

\* str(data.get("key", ""))
KeyOf(d) == IF d.f.key = Absent THEN "" ELSE d.f.key.s

Authenticate ==
    /\ pc = "Received"
    /\ LET raw == request.raw
           sig == request.sig
           ts_header == request.ts_header
           ts_ms == ts_header
       IN IF Truthy(ts_header) /\ IntRaises(ts_header)
          THEN Unhandled(Exc("ValueError")) /\ UNCHANGED <<now_ms, data>>
          ELSE IF WEBHOOK_AUTH_DISABLED
          THEN LoadJson(raw, "Invalid JSON (auth disabled)") /\ UNCHANGED now_ms
          ELSE IF sig # NoSig
          THEN IF ~verify_hmac(raw, sig, WEBHOOK_SECRET)
               THEN /\ Fail(401, "unauthorized", "Invalid webhook signature")
                    /\ UNCHANGED <<now_ms, data>>
               ELSE \E now \in IF ts_ms = Absent THEN {0} ELSE ClockReadings :
                      /\ now_ms' = now
                      /\ IF ~validate_timestamp(ts_ms, WEBHOOK_MAX_SKEW_SECONDS, now)
                         THEN /\ Fail(401, "skew", "Timestamp skew too large")
                              /\ UNCHANGED data
                         ELSE LoadJson(raw, "Invalid JSON")
          ELSE /\ UNCHANGED now_ms
               /\ IF DecodeRaises(raw) \/ JsonRaises(raw)
                  THEN LoadJson(raw, "Invalid JSON (fallback)")
                  ELSE IF JsonLoads(raw).type # "dict"
                  THEN Unhandled(Exc("AttributeError")) /\ UNCHANGED data
                  ELSE IF KeyOf(JsonLoads(raw)) # WEBHOOK_SECRET
                  THEN Fail(401, "unauthorized", "Invalid fallback key") /\ UNCHANGED data
                  ELSE LoadJson(raw, "Invalid JSON (fallback)")
    /\ UNCHANGED <<cfgVars, peer, request, payload, retryVars, sizing, params, venueVars>>

(***************************************************************************)
(* Validation (webhook_server.py, lines 29-89 and 143-156).                *)
(***************************************************************************)
\* amount_usdt = Config.DEFAULT_AMOUNT_USDT
FromCaller(f) == IF f.amount_usdt = Absent THEN DEFAULT_AMOUNT_USDT ELSE f.amount_usdt

FixedNotional(f) == DEFAULT_AMOUNT_USDT

parse_and_validate_payload(d) ==
    LET f == d.f
        Err(e) == [payload |-> NoPayload, err |-> e, exc |-> NoExc]
        Raise(c) == [payload |-> NoPayload, err |-> "", exc |-> Exc(c)]
        action == Lower(f.action.s)
        symbol == Upper(f.symbol.s)
        order_type == Lower(IF f.order_type = Absent THEN DEFAULT_ORDER_TYPE
                                                     ELSE f.order_type.s)
        direction == Lower(IF f.direction = Absent THEN "long" ELSE f.direction.s)
        amount_usdt == FixedNotional(f)
        base == [action |-> action, symbol |-> symbol, order_type |-> order_type,
                 direction |-> Absent, amount_usdt |-> Absent, limit_price |-> Absent]
        open == [base EXCEPT !.direction = Str(direction),
                             !.amount_usdt = Num(Float(amount_usdt))]
    IN IF d.type = "int" THEN Raise("TypeError")
       ELSE IF d.type = "list" \/ f.action = Absent THEN Err("Missing field: action")
       ELSE IF f.symbol = Absent THEN Err("Missing field: symbol")
       ELSE IF action \notin {"open", "close"} THEN Err("action must be 'open' or 'close'")
       ELSE IF order_type \notin {"market", "limit"}
       THEN Err("order_type must be 'market' or 'limit'")
       ELSE IF action # "open" THEN [payload |-> base, err |-> "", exc |-> NoExc]
       ELSE IF direction \notin {"long", "short"}
       THEN Err("direction must be 'long' or 'short' when action=='open'")
       ELSE IF FloatRaises(amount_usdt)
       THEN Err("amount_usdt must be a number when action=='open'")
       ELSE IF Float(amount_usdt) <= 0
       THEN Err("amount_usdt must be > 0 when action=='open'")
       ELSE IF order_type # "limit" THEN [payload |-> open, err |-> "", exc |-> NoExc]
       ELSE IF f.limit_price = Absent THEN Err("limit_price is required for limit orders")
       ELSE IF FloatRaises(f.limit_price) THEN Raise("ValueError")
       ELSE [payload |-> [open EXCEPT !.limit_price = Num(Float(f.limit_price))],
             err |-> "", exc |-> NoExc]

Validate ==
    /\ pc = "Authenticated"
    /\ LET r == parse_and_validate_payload(data)
       IN IF r.exc # NoExc THEN Unhandled(r.exc) /\ UNCHANGED payload
          ELSE IF r.err # ""
          THEN Fail(400, r.err, "Validation error: " \o r.err) /\ UNCHANGED payload
          ELSE /\ payload' = r.payload
               /\ notifications' = send_signal_notification(notifications, r.payload)
               /\ pc' = "Validated"
               /\ UNCHANGED response
    /\ UNCHANGED <<cfgVars, peer, request, now_ms, data, retryVars, sizing, params, venueVars>>

(***************************************************************************)
(* The venue.  An instrument is listed with a quantity step, a minimum     *)
(* order quantity (both in 1/QtyScale coins) and a minimum order notional  *)
(* (USDT, 0: none).  Quotes and balances are whatever the venue answers    *)
(* when asked.                                                             *)
(***************************************************************************)
QtyScale == 1000

VenueStates ==
    {NoVenue} \cup
    {[listed |-> TRUE, lot |-> q[1], min_qty |-> q[2], min_notional |-> n] :
        q \in {<<1, 1>>, <<1, 100>>, <<10, 10>>, <<10, 100>>}, n \in {0, 5}}

InstrumentReturns ==
    {[NoReturn EXCEPT !.found = venue.listed, !.lot = venue.lot, !.min_qty = venue.min_qty]}

OrderbookReturns ==
    {[NoReturn EXCEPT !.bid = q[1], !.ask = q[2]] :
        q \in {<<Absent, Absent>>, <<Num(3000), Num(3010)>>,
               <<Absent, Num(25000)>>, <<Num(0), Num(25000)>>}}

TickersReturns ==
    {NoReturn} \cup
    {[NoReturn EXCEPT !.found = TRUE, !.bid = q[1], !.ask = q[2], !.last = q[3]] :
        q \in {<<Absent, Absent, Absent>>, <<Num(3000), Num(3010), Num(3005)>>,
               <<Absent, Absent, Num(25000)>>}}

\* The coin entries of the accounts get_wallet_balance lists, in the order
\* the two loops of close_position_market visit them; free is in 1/QtyScale
\* coins.
Coin(c, free) == [coin |-> c, free |-> free]

\* Where the account is followed the answer lists what it holds now.
WalletReturns ==
    {[NoReturn EXCEPT !.coins = w] :
        w \in IF account.tracked
              THEN {<<Coin("USDT", 50), Coin("BTC", account.free)>>}
              ELSE {<<>>, <<Coin("BTC", 0)>>, <<Coin("USDT", 2000)>>, <<Coin("BTC", -5)>>,
                    <<Coin("BTC", 15)>>, <<Coin("USDT", 50), Coin("BTC", 2000)>>,
                    <<Coin("BTC", 15), Coin("BTC", 2000)>>}}

PlaceOrderReturns == {[NoReturn EXCEPT !.found = TRUE]}

(***************************************************************************)
(* BybitTrader._with_retry (bybit_trader.py, lines 27-39).  One action is  *)
(* one iteration of its loop around one client method; pc names the        *)
(* method, outcome.state says whether the loop is still running.           *)
(***************************************************************************)
InitialDelayMs == 500
RetryRange == 4
LastAttempt == 3

BackoffLinear(d) == d + InitialDelayMs

Backoff(d) == d * 2

ReraiseWrapped(exc) == Exc("RuntimeError")

Reraise(exc) == exc

\* The first client call of a request is also the first time the venue's
\* listing matters: it is fixed here and stays as it is for the request.
StartRetry(op) ==
    /\ pc' = op
    /\ attempt' = 0
    /\ delay' = InitialDelayMs
    /\ sleeps' = <<>>
    /\ invoked' = 0
    /\ raised' = NoExc
    /\ outcome' = [NoReturn EXCEPT !.state = "running"]
    /\ venue' \in IF venue = NoVenue /\ calls = {} THEN VenueStates ELSE {venue}

\* except Exception as exc: raise on the last attempt, else sleep and double
Raises(exc) ==
    /\ raised' = exc
    /\ IF attempt = LastAttempt
       THEN /\ outcome' = [outcome EXCEPT !.state = "raised", !.exc = Reraise(exc)]
            /\ UNCHANGED <<attempt, delay, sleeps>>
       ELSE /\ sleeps' = Append(sleeps, delay)
            /\ delay' = Backoff(delay)
            /\ attempt' = attempt + 1
            /\ outcome' = IF attempt + 1 < RetryRange THEN outcome
                          ELSE [outcome EXCEPT !.state = "returned"]

Returns(r) ==
    /\ outcome' = [r EXCEPT !.state = "returned"]
    /\ UNCHANGED <<attempt, delay, sleeps, raised>>

Invoke(op) ==
    /\ pc = op
    /\ outcome.state = "running"
    /\ calls' = calls \cup {op}
    /\ invoked' = invoked + 1
    /\ UNCHANGED <<cfgVars, peer, reqVars, pc, sizing, params, venue, outVars>>

Call_get_instruments_info ==
    /\ Invoke("get_instruments_info")
    /\ UNCHANGED <<orders, accepted, account>>
    /\ \/ \E r \in InstrumentReturns : Returns(r)
       \/ \E c \in VenueErrorClasses : Raises(VenueExc(c, invoked + 1))

Call_get_orderbook ==
    /\ Invoke("get_orderbook")
    /\ UNCHANGED <<orders, accepted, account>>
    /\ \/ \E r \in OrderbookReturns : Returns(r)
       \/ \E c \in VenueErrorClasses : Raises(VenueExc(c, invoked + 1))

Call_get_tickers ==
    /\ Invoke("get_tickers")
    /\ UNCHANGED <<orders, accepted, account>>
    /\ \/ \E r \in TickersReturns : Returns(r)
       \/ \E c \in VenueErrorClasses : Raises(VenueExc(c, invoked + 1))

Call_get_wallet_balance ==
    /\ Invoke("get_wallet_balance")
    /\ UNCHANGED <<orders, accepted, account>>
    /\ \/ \E r \in WalletReturns : Returns(r)
       \/ \E c \in VenueErrorClasses : Raises(VenueExc(c, invoked + 1))

\* The venue takes a sell only if the account holds the quantity.
Covered(acct, order) ==
    (acct.tracked /\ order.side = "Sell") => order.qty.num <= acct.free * order.qty.den

\* A market sell the venue took is filled at once from the account.
Filled(acct, order) ==
    IF acct.tracked /\ order.side = "Sell"
    THEN [acct EXCEPT !.free = @ - order.qty.num, !.sold = @ + order.qty.num]
    ELSE acct

\* The venue takes the order and answers, refuses it, or takes it and the
\* answer is lost on the way back.
Call_place_order ==
    /\ Invoke("place_order")
    /\ orders' = Append(orders, params)
    /\ \/ /\ venue.listed
          /\ Covered(account, params)
          /\ accepted' = accepted + 1
          /\ account' = Filled(account, params)
          /\ \E r \in PlaceOrderReturns : Returns(r)
       \/ /\ UNCHANGED <<accepted, account>>
          /\ \E c \in VenueErrorClasses : Raises(VenueExc(c, invoked + 1))
       \/ /\ venue.listed
          /\ Covered(account, params)
          /\ accepted' = accepted + 1
          /\ account' = Filled(account, params)
          /\ Raises(VenueExc("ConnectionError", invoked + 1))

(***************************************************************************)
(* BybitTrader.place_order (bybit_trader.py, lines 117-165).               *)
(***************************************************************************)
OrderParams(symbol, side, order_type, qty, price, time_in_force) ==
    [symbol |-> symbol,
     side |-> Capitalize(side),
     orderType |-> Capitalize(order_type),
     timeInForce |-> time_in_force,
     marketUnit |-> IF Lower(order_type) = "market" /\ Lower(side) = "buy"
                    THEN "quote" ELSE "",
     qty |-> qty,
     price |-> IF Lower(order_type) # "market" THEN price ELSE Absent]

place_order_live(symbol, side, order_type, qty, price, time_in_force) ==
    /\ params' = OrderParams(symbol, side, order_type, qty, price, time_in_force)
    /\ StartRetry("place_order")
    /\ UNCHANGED outVars

\* place_order as webhook_handler calls it for an Open signal.  In test mode
\* the same params are built and returned as the "request" of the result.
place_order(symbol, side, order_type, qty, price, time_in_force) ==
    /\ params' = OrderParams(symbol, side, order_type, qty, price, time_in_force)
    /\ IF test_mode
       THEN /\ Succeed("SIMULATED")
            /\ UNCHANGED <<retryVars, venue>>
       ELSE /\ StartRetry("place_order")
            /\ UNCHANGED outVars

TimeInForceAlwaysIOC(order_type) == "IOC"

\* time_in_force="IOC" if order_type == "market" else "GTC"
TimeInForce(order_type) == IF order_type = "market" THEN "IOC" ELSE "GTC"

After_place_order ==
    /\ pc = "place_order"
    /\ outcome.state \in {"returned", "raised"}
    /\ IF outcome.state = "raised" THEN Unhandled(outcome.exc)
       ELSE IF payload.action = "open" THEN Succeed("OK")
       ELSE Succeed("closing_spot")
    /\ UNCHANGED <<cfgVars, peer, reqVars, retryVars, sizing, params, venueVars>>

(***************************************************************************)
(* BybitTrader.notional_to_qty and its helpers (lines 42-114).             *)
(***************************************************************************)
\* A quantity is a fraction num/den of 1/QtyScale coins.
\*
\* value / step is a division of two binary64 numbers.  Where the decimal
\* operands divide evenly the quotient of their binary64 forms can fall just
\* below the integer: (30 / 100) / 0.1 is 2.9999999999999996.  These are the
\* operands <<value.num, value.den, step>>, among the ones sized here, for
\* which it does.
QuotientFallsShort == {<<30 * QtyScale, 100, 100>>}

\* math.floor(value / step)
FloorOfQuotient(value, step) ==
    LET exact == value.num \div (value.den * step)
    IN IF <<value.num, value.den, step>> \in QuotientFallsShort THEN exact - 1 ELSE exact

_round_step(value, step) ==
    IF step <= 0 THEN value
    ELSE [num |-> FloorOfQuotient(value, step) * step, den |-> 1]

SizingFailedUnhandled(msg) ==
    /\ Unhandled(Exc("ValueError"))
    /\ UNCHANGED <<retryVars, params, venue>>

\* except ValueError as ve / except Exception as exc: ... return jsonify({"error": msg}), 400
SizingFailed(msg) ==
    /\ Fail(400, msg, msg)
    /\ UNCHANGED <<retryVars, params, venue>>

After_get_instruments_info ==
    /\ pc = "get_instruments_info"
    /\ outcome.state \in {"returned", "raised"}
    /\ IF outcome.state = "raised"
       THEN SizingFailed("symbol not found or unsupported") /\ UNCHANGED sizing
       ELSE IF ~outcome.found
       THEN SizingFailed("Symbol not found or not spot") /\ UNCHANGED sizing
       ELSE /\ sizing' = [sizing EXCEPT !.lot = outcome.lot, !.min_qty = outcome.min_qty]
            /\ StartRetry("get_orderbook")
            /\ UNCHANGED outVars
    /\ UNCHANGED <<cfgVars, peer, reqVars, params, calls, orders, accepted, account>>

notional_to_qty_unchecked(amount_usdt, lot, min_qty, bid, ask) ==
    LET price == IF Truthy(bid) THEN bid ELSE ask
    IN IF ~Truthy(price)
       THEN [err |-> "Failed to fetch price for qty calc", price |-> 0,
             required_usdt |-> 0, qty |-> NoQty]
       ELSE [err |-> "", price |-> price.n, required_usdt |-> 0,
             qty |-> _round_step([num |-> amount_usdt * QtyScale, den |-> price.n], lot)]

\* notional_to_qty for a sell, from the filters and the quote it fetched:
\* price = bid or ask ... return qty.  required_usdt is counted in 1/QtyScale USDT.
notional_to_qty(amount_usdt, lot, min_qty, bid, ask) ==
    LET price == IF Truthy(bid) THEN bid ELSE ask
        qty == _round_step([num |-> amount_usdt * QtyScale, den |-> price.n], lot)
        Raise(msg, p, r) == [err |-> msg, price |-> p, required_usdt |-> r, qty |-> NoQty]
    IN IF ~Truthy(price) THEN Raise("Failed to fetch price for qty calc", 0, 0)
       ELSE IF qty.num < min_qty * qty.den
       THEN Raise("amount_usdt too small", price.n, min_qty * price.n)
       ELSE [err |-> "", price |-> price.n, required_usdt |-> 0, qty |-> qty]

\* qty = trader.notional_to_qty(...) and what webhook_handler does with it
SizeAndPlace(bid, ask) ==
    LET r == notional_to_qty(payload.amount_usdt.n, sizing.lot, sizing.min_qty, bid, ask)
    IN /\ sizing' = [sizing EXCEPT !.bid = bid, !.ask = ask, !.price = r.price,
                                   !.required_usdt = r.required_usdt,
                                   !.qty = r.qty, !.err = r.err]
       /\ IF r.err # "" THEN SizingFailed(r.err)
          ELSE place_order(payload.symbol, "sell", payload.order_type, r.qty,
                           payload.limit_price, TimeInForce(payload.order_type))

OrderbookHasBothSides(res) ==
    res.state = "returned" /\ res.bid # Absent /\ res.ask # Absent

\* the try block returned: if bid is not None or ask is not None: return bid, ask
OrderbookHasQuote(res) ==
    res.state = "returned" /\ (res.bid # Absent \/ res.ask # Absent)

After_get_orderbook ==
    /\ pc = "get_orderbook"
    /\ outcome.state \in {"returned", "raised"}
    /\ IF OrderbookHasQuote(outcome)
       THEN SizeAndPlace(outcome.bid, outcome.ask)
       ELSE StartRetry("get_tickers") /\ UNCHANGED <<sizing, params, outVars>>
    /\ UNCHANGED <<cfgVars, peer, reqVars, calls, orders, accepted, account>>

After_get_tickers ==
    /\ pc = "get_tickers"
    /\ outcome.state \in {"returned", "raised"}
    /\ LET bid == outcome.bid   \* float(bid1Price) if the item has one, else None
           ask == outcome.ask
       IN IF outcome.state = "raised"
          THEN SizingFailed("symbol not found or unsupported") /\ UNCHANGED sizing
          ELSE IF ~outcome.found THEN SizeAndPlace(Absent, Absent)
          ELSE IF bid = Absent /\ ask = Absent /\ outcome.last # Absent
          THEN SizeAndPlace(outcome.last, outcome.last)
          ELSE SizeAndPlace(bid, ask)
    /\ UNCHANGED <<cfgVars, peer, reqVars, calls, orders, accepted, account>>

(***************************************************************************)
(* BybitTrader.close_position_market (lines 167-183).                      *)
(***************************************************************************)
\* symbol.replace("USDT", "") on the symbols that occur
base_ccy(symbol) == CASE symbol = "BTCUSDT" -> "BTC"
                      [] OTHER -> symbol

\* for acct in list_: for c in acct.get("coin", []): if c.get("coin") == base_ccy: total_qty += ...
RECURSIVE TotalQty(_, _)
TotalQty(coins, ccy) ==
    IF coins = <<>> THEN 0
    ELSE (IF Head(coins).coin = ccy THEN Head(coins).free ELSE 0)
         + TotalQty(Tail(coins), ccy)

HalfBalance(total_qty) == [num |-> total_qty \div 2, den |-> 1]

\* qty=total_qty
FullBalance(total_qty) == [num |-> total_qty, den |-> 1]

NoSpotBalanceStrict(total_qty) == total_qty < 0

\* if total_qty <= 0: return {"status": "no_spot_balance"}
NoSpotBalance(total_qty) == total_qty <= 0

After_get_wallet_balance ==
    /\ pc = "get_wallet_balance"
    /\ outcome.state \in {"returned", "raised"}
    /\ LET total_qty == TotalQty(outcome.coins, base_ccy(payload.symbol))
       IN IF outcome.state = "raised"
          THEN Unhandled(outcome.exc) /\ UNCHANGED <<retryVars, params, venue>>
          ELSE IF NoSpotBalance(total_qty)
          THEN Succeed("no_spot_balance") /\ UNCHANGED <<retryVars, params, venue>>
          ELSE /\ params' = OrderParams(payload.symbol, "sell", "market",
                                        FullBalance(total_qty), Absent, "IOC")
               /\ StartRetry("place_order")
               /\ UNCHANGED outVars
    /\ UNCHANGED <<cfgVars, peer, reqVars, sizing, calls, orders, accepted, account>>

(***************************************************************************)
(* webhook_handler after validation (webhook_server.py, lines 158-224),    *)
(* up to the first client call.  raw, sig, ts_ms and data are not read     *)
(* again from here on.                                                     *)
(***************************************************************************)
OutOfBoundsStrict(amount_usdt) ==
    amount_usdt <= MIN_ORDER_SIZE_USDT \/ amount_usdt >= MAX_ORDER_SIZE_USDT

OutOfBounds(amount_usdt) ==
    amount_usdt < MIN_ORDER_SIZE_USDT \/ amount_usdt > MAX_ORDER_SIZE_USDT

Dispatch ==
    /\ pc = "Validated"
    /\ request' = Consumed
    /\ now_ms' = 0
    /\ data' = NoData
    /\ IF payload.action = "open"
       THEN LET side == IF payload.direction.s = "long" THEN "buy" ELSE "sell"
                amount_usdt == payload.amount_usdt.n
            IN IF OutOfBounds(amount_usdt)
               THEN /\ Fail(400, "amount_usdt out of bounds", "amount_usdt out of bounds")
                    /\ UNCHANGED <<retryVars, params, venue>>
               ELSE IF side = "buy"
               THEN place_order(payload.symbol, side, payload.order_type,
                                [num |-> amount_usdt * QtyScale, den |-> 1],
                                payload.limit_price, TimeInForce(payload.order_type))
               ELSE /\ StartRetry("get_instruments_info")
                    /\ UNCHANGED <<params, outVars>>
       ELSE IF test_mode
       THEN Succeed("SIMULATED_CLOSE") /\ UNCHANGED <<retryVars, params, venue>>
       ELSE /\ StartRetry("get_wallet_balance")
            /\ UNCHANGED <<params, outVars>>
    /\ UNCHANGED <<cfgVars, peer, payload, sizing, calls, orders, accepted, account>>

Next ==
    \/ Authenticate
    \/ Validate
    \/ Dispatch
    \/ Call_get_instruments_info
    \/ After_get_instruments_info
    \/ Call_get_orderbook
    \/ After_get_orderbook
    \/ Call_get_tickers
    \/ After_get_tickers
    \/ Call_place_order
    \/ After_place_order
    \/ Call_get_wallet_balance
    \/ After_get_wallet_balance

Spec == Init /\ [][Next]_vars

\* The handling thread runs on: a step that can be taken is taken.
LiveSpec == Spec /\ WF_vars(Next)

(***************************************************************************)
(* Sizing on its own.  Config.MIN_ORDER_SIZE_USDT and MAX_ORDER_SIZE_USDT  *)
(* are configuration and notional_to_qty takes any amount: here it is      *)
(* followed for amounts below the default bounds too, from the point where *)
(* get_price_tick_and_lot and the order book have answered, through        *)
(* wherever webhook_handler takes its result.                              *)
(***************************************************************************)
SizerAmounts == {1, 5, 30, 50}

SizerFilters ==
    {[listed |-> TRUE, lot |-> q[1], min_qty |-> q[2], min_notional |-> n] :
        q \in {<<1, 1>>, <<1, 100>>, <<10, 100>>, <<100, 100>>}, n \in {0, 5}}

SizerQuotes ==
    {[NoReturn EXCEPT !.state = "returned", !.bid = q[1], !.ask = q[2]] :
        q \in {<<Absent, Absent>>, <<Absent, Num(25000)>>, <<Num(0), Num(25000)>>,
               <<Num(50000), Num(50010)>>, <<Num(100), Num(101)>>}}

SizerInit ==
    /\ WEBHOOK_AUTH_DISABLED = FALSE
    /\ DEFAULT_AMOUNT_USDT = Num(50)
    /\ test_mode \in BOOLEAN
    /\ request = Consumed
    /\ now_ms = 0
    /\ data = NoData
    /\ \E a \in SizerAmounts :
          payload = [NoPayload EXCEPT !.action = "open", !.symbol = "BTCUSDT",
                                      !.order_type = "market",
                                      !.direction = Str("short"),
                                      !.amount_usdt = Num(a)]
    /\ pc = "get_orderbook"
    /\ attempt = 0
    /\ delay = InitialDelayMs
    /\ sleeps = <<>>
    /\ invoked = 1
    /\ raised = NoExc
    /\ outcome \in SizerQuotes
    /\ venue \in SizerFilters
    /\ sizing = [NoSizing EXCEPT !.lot = venue.lot, !.min_qty = venue.min_qty]
    /\ params = NoParams
    /\ calls = {"get_instruments_info", "get_orderbook"}
    /\ orders = <<>>
    /\ accepted = 0
    /\ account = NoAccount
    /\ peer = NoPeer
    /\ notifications = <<[kind |-> "signal", text |-> "open", exc |-> NoExc]>>
    /\ response = NoResponse

SizerNext ==
    \/ After_get_orderbook
    \/ Call_get_tickers
    \/ After_get_tickers
    \/ Call_place_order
    \/ After_place_order

SizerSpec == SizerInit /\ [][SizerNext]_vars

(***************************************************************************)
(* Two Close signals at once.  The server of main.py (app.run) handles     *)
(* each request on a thread of its own; the threads share the trader, its  *)
(* client and the notifier, and what the account holds at the venue.  The  *)
(* variables of a handler are the locals of the thread that is running;    *)
(* peer keeps those of the other one, and Switch is the scheduler taking   *)
(* the processor from one and giving it to the other between two steps.    *)
(***************************************************************************)
Locals ==
    [request |-> request, now_ms |-> now_ms, data |-> data, payload |-> payload,
     pc |-> pc, attempt |-> attempt, delay |-> delay, sleeps |-> sleeps,
     invoked |-> invoked, raised |-> raised, outcome |-> outcome, sizing |-> sizing,
     params |-> params, response |-> response]

Switch ==
    /\ peer.pc # "Done"
    /\ peer' = Locals
    /\ request' = peer.request
    /\ now_ms' = peer.now_ms
    /\ data' = peer.data
    /\ payload' = peer.payload
    /\ pc' = peer.pc
    /\ attempt' = peer.attempt
    /\ delay' = peer.delay
    /\ sleeps' = peer.sleeps
    /\ invoked' = peer.invoked
    /\ raised' = peer.raised
    /\ outcome' = peer.outcome
    /\ sizing' = peer.sizing
    /\ params' = peer.params
    /\ response' = peer.response
    /\ UNCHANGED <<cfgVars, venueVars, notifications>>

\* POST /webhook with {"key": WEBHOOK_SECRET, "action": "CLOSE", "symbol": "btcusdt"}
CloseRequest ==
    [raw |-> [kind |-> "object",
              f |-> [NoFields EXCEPT !.key = Str(WEBHOOK_SECRET),
                                     !.action = Str("CLOSE"),
                                     !.symbol = Str("btcusdt")]],
     sig |-> NoSig, ts_header |-> Absent]

\* What the account holds of the base asset when the signals arrive, in
\* 1/QtyScale coins.
HeldBalances == {0, 15, 2000}

ConcurrentInit ==
    /\ WEBHOOK_AUTH_DISABLED = FALSE
    /\ DEFAULT_AMOUNT_USDT = Num(50)
    /\ test_mode = FALSE
    /\ request = CloseRequest
    /\ now_ms = 0
    /\ data = NoData
    /\ payload = NoPayload
    /\ pc = "Received"
    /\ attempt = 0
    /\ delay = 0
    /\ sleeps = <<>>
    /\ invoked = 0
    /\ raised = NoExc
    /\ outcome = NoReturn
    /\ sizing = NoSizing
    /\ params = NoParams
    /\ calls = {}
    /\ orders = <<>>
    /\ accepted = 0
    /\ venue = [listed |-> TRUE, lot |-> 1, min_qty |-> 1, min_notional |-> 0]
    /\ \E held \in HeldBalances :
          account = [tracked |-> TRUE, free |-> held, sold |-> 0]
    /\ peer = [NoPeer EXCEPT !.request = CloseRequest, !.pc = "Received"]
    /\ notifications = <<>>
    /\ response = NoResponse

ConcurrentNext ==
    \/ Switch
    \/ Authenticate
    \/ Validate
    \/ Dispatch
    \/ Call_get_wallet_balance
    \/ After_get_wallet_balance
    \/ Call_place_order
    \/ After_place_order

ConcurrentSpec == ConcurrentInit /\ [][ConcurrentNext]_vars

(***************************************************************************)
(* Properties.                                                             *)
(***************************************************************************)
Count(kind) ==
    Cardinality({i \in DOMAIN notifications : notifications[i].kind = kind})

\* The request was turned away by Authenticate.
AuthRejected == pc = "Done" /\ data = NoData /\ request # Consumed
\* The request passed Authenticate (request and data are still held).
AuthAccepted == data # NoData /\ request # Consumed
\* The request was turned away before a payload was built.
RejectedEarly == pc = "Done" /\ payload = NoPayload

\* C1: a request rejected at authentication or at payload validation has
\* caused no venue call, and the rejection is in the HTTP response and in
\* one error notification.
C1_RejectionTouchesNoVenue ==
    RejectedEarly =>
        /\ calls = {}
        /\ orders = <<>>
        /\ accepted = 0
        /\ response.status \in {400, 401, 500}
        /\ response.error # ""
        /\ Count("error") = 1
        /\ notifications[Len(notifications)].kind = "error"

C1_Witness ==
    /\ RejectedEarly
    /\ data.type = "dict"
    /\ response.status = 400
    /\ calls = {}

OutOfBoundsText == "amount_usdt out of bounds"

\* C2: for an Open signal the notional is checked against
\* [MIN_ORDER_SIZE_USDT, MAX_ORDER_SIZE_USDT] after validation and before any
\* venue call: outside the bounds the request ends with 400 and no venue
\* call, at either bound it goes on.
C2_BoundsBeforeSizing ==
    /\ response.error = OutOfBoundsText => payload.action = "open"
    /\ (payload.action = "open" /\ pc # "Validated") =>
          IF \/ payload.amount_usdt.n < MIN_ORDER_SIZE_USDT
             \/ payload.amount_usdt.n > MAX_ORDER_SIZE_USDT
          THEN /\ pc = "Done"
               /\ response.status = 400
               /\ response.error = OutOfBoundsText
               /\ calls = {}
               /\ orders = <<>>
          ELSE response.error # OutOfBoundsText

C2_Witness ==
    /\ payload.action = "open"
    /\ payload.amount_usdt.n = MAX_ORDER_SIZE_USDT + 1
    /\ response.status = 400
    /\ response.error = OutOfBoundsText

\* An amount equal to the lower bound has reached the venue.
C2_WitnessAtBound ==
    /\ payload.action = "open"
    /\ payload.amount_usdt.n = MIN_ORDER_SIZE_USDT
    /\ calls # {}

\* C3: every quantity passed to the venue's order submission is a
\* non-negative multiple of the instrument's quantity step, is at least its
\* minimum order quantity, and is worth at least its minimum order notional
\* at the reference price.
C3_SubmittedQtyIsLegal ==
    \A i \in DOMAIN orders :
        venue.listed =>
            /\ orders[i].qty.den = 1
            /\ orders[i].qty.num >= 0
            /\ orders[i].qty.num % venue.lot = 0
            /\ orders[i].qty.num >= venue.min_qty
            /\ (venue.min_notional # 0 /\ sizing.price # 0) =>
                  orders[i].qty.num * sizing.price >= venue.min_notional * QtyScale

BackoffSchedule == <<InitialDelayMs, 2 * InitialDelayMs, 4 * InitialDelayMs>>

InRetry == outcome.state = "running"
RetryEnded == outcome.state \in {"returned", "raised"}

\* C4: one _with_retry call invokes the client method at most 4 times, an
\* invocation after the first follows a raise of the one before, the waits
\* before the 2nd, 3rd and 4th invocation are 0.5 s, 1 s and 2 s, no wait
\* follows the 4th, and the call ends with a result or an exception.
C4_RetrySafety ==
    /\ invoked <= 4
    /\ Len(sleeps) <= 3
    /\ sleeps = SubSeq(BackoffSchedule, 1, Len(sleeps))
    /\ InRetry => /\ invoked = attempt
                  /\ Len(sleeps) = invoked
                  /\ invoked >= 1 => raised.attempt = invoked
                  /\ invoked < 4
    /\ outcome.state = "returned" =>
                  /\ Len(sleeps) = invoked - 1
                  /\ invoked >= 2 => raised.attempt = invoked - 1
    /\ outcome.state = "raised" =>
                  /\ invoked = 4
                  /\ Len(sleeps) = 3

\* C4, with its last part: the bounds above hold throughout, and a
\* _with_retry call that is running ends with a result or an exception.
C4_BoundedRetry == []C4_RetrySafety /\ (InRetry ~> RetryEnded)

C4_Witness ==
    /\ outcome.state = "raised"
    /\ invoked = 4
    /\ sleeps = <<500, 1000, 2000>>

\* C5: a call that fails three times and then succeeds returns the result
\* with no error; a call that fails four times propagates the exception of
\* the 4th invocation itself; a failure of an earlier invocation is retried
\* whatever its class.
C5_RetryOutcome ==
    /\ outcome.state = "returned" =>
          /\ outcome.exc = NoExc
          /\ invoked = 4 => raised.attempt = 3
    /\ outcome.state = "raised" =>
          /\ invoked = 4
          /\ raised.attempt = 4
          /\ raised.class \in VenueErrorClasses
          /\ outcome.exc = raised
    /\ (raised # NoExc /\ raised.attempt < 4) => outcome.state # "raised"
    /\ \A i \in DOMAIN notifications :
          notifications[i].exc.class \in VenueErrorClasses =>
              notifications[i].exc.attempt = 4
    /\ (pc = "Done" /\ "place_order" \in calls /\ outcome.state = "returned") =>
          /\ response.status = 200
          /\ Count("error") = 0

C5_Witness ==
    /\ outcome.state = "returned"
    /\ invoked = 4
    /\ raised.attempt = 3
    /\ pc = "place_order"

\* Four failed invocations of place_order have surfaced as a 500.
C5_WitnessExhausted ==
    /\ pc = "Done"
    /\ response.status = 500
    /\ raised.attempt = 4
    /\ notifications[Len(notifications)].exc = raised

JsonParseFails(raw) == DecodeRaises(raw) \/ JsonRaises(raw)
ValidSignature == request.sig = Hmac(WEBHOOK_SECRET, request.raw)
AuthDecided == pc # "Received" /\ request # Consumed

\* C6: authentication is decided in the order disabled, signature, fallback
\* key.  Disabled: only a JSON parse failure rejects.  Signature header
\* present: accepted only if it is the HMAC of the raw body under the secret,
\* whatever the body's key field.  No signature header: accepted only if the
\* body's key field is the secret.  A rejection is a 401 (a 400 for a body
\* that is no JSON).
C6_AuthPriority ==
    AuthDecided =>
        /\ AuthRejected =>
              \/ response.status = 401
              \/ JsonParseFails(request.raw) /\ response.status = 400
        /\ IF WEBHOOK_AUTH_DISABLED
           THEN AuthRejected <=> JsonParseFails(request.raw)
           ELSE IF request.sig # NoSig
           THEN /\ ~ValidSignature => AuthRejected /\ response.status = 401
                /\ AuthAccepted => ValidSignature
           ELSE AuthAccepted <=> /\ ~JsonParseFails(request.raw)
                                 /\ request.raw.f.key = Str(WEBHOOK_SECRET)

\* C7: in signature mode a claimed timestamp that is exactly
\* WEBHOOK_MAX_SKEW_SECONDS * 1000 ms away from the clock, before or after,
\* passes; one millisecond more is rejected with 401 "skew"; without a
\* timestamp the clock is not consulted and nothing is rejected for skew.
C7_SkewBoundary ==
    (AuthDecided /\ ~WEBHOOK_AUTH_DISABLED /\ ValidSignature) =>
        /\ request.ts_header = Absent =>
              /\ now_ms = 0
              /\ response.status # 401
        /\ request.ts_header.t = "num" =>
              IF Abs(now_ms - request.ts_header.n) <= MaxSkewMs
              THEN response.status # 401
              ELSE /\ AuthRejected
                   /\ response.status = 401
                   /\ response.error = "skew"

C7_Witness ==
    /\ pc = "Authenticated"
    /\ ~WEBHOOK_AUTH_DISABLED
    /\ ValidSignature
    /\ request.ts_header.t = "num"
    /\ now_ms - request.ts_header.n = MaxSkewMs

\* A timestamp one millisecond beyond the allowed skew, in the future.
C7_WitnessBeyond ==
    /\ AuthRejected
    /\ ValidSignature
    /\ request.ts_header.t = "num"
    /\ request.ts_header.n - now_ms = MaxSkewMs + 1
    /\ response.error = "skew"

\* C8: the notional of an Open order is the configured default amount and
\* never the caller's amount_usdt: the payload's amount, the sized quantity
\* and every submitted order are determined by the configuration; a
\* configured amount that is no number or is <= 0 rejects the request.
C8_NotionalIsConfigured ==
    /\ payload.action = "open" =>
          /\ DEFAULT_AMOUNT_USDT.t = "num"
          /\ DEFAULT_AMOUNT_USDT.n > 0
          /\ payload.amount_usdt = Num(DEFAULT_AMOUNT_USDT.n)
          /\ params.side = "Buy" =>
                params.qty = [num |-> DEFAULT_AMOUNT_USDT.n * QtyScale, den |-> 1]
          /\ params.side = "Sell" =>
                params.qty = _round_step([num |-> DEFAULT_AMOUNT_USDT.n * QtyScale,
                                          den |-> sizing.price], sizing.lot)
          /\ \A i \in DOMAIN orders : orders[i] = params
    /\ ( /\ request # Consumed
         /\ pc \notin {"Received", "Authenticated"}
         /\ data.type = "dict"
         /\ data.f.action = Str("open")
         /\ (DEFAULT_AMOUNT_USDT.t # "num" \/ DEFAULT_AMOUNT_USDT.n <= 0) ) =>
          /\ pc = "Done"
          /\ payload = NoPayload
          /\ response.status = 400

C8_Witness ==
    /\ pc = "Validated"
    /\ payload.action = "open"
    /\ data.f.amount_usdt = Num(999)
    /\ payload.amount_usdt = Num(50)

\* A sell sized from the configured amount has been submitted.
C8_WitnessSubmitted ==
    /\ payload.action = "open"
    /\ Len(orders) >= 1
    /\ orders[1].side = "Sell"
    /\ payload.amount_usdt = Num(50)

\* C9, as claimed: a handled request has produced exactly one notification
\* in total.
C9_ExactlyOneNotification ==
    pc = "Done" => Len(notifications) = 1

\* C9, amended: the handler runs to its end, and a handled request has
\* produced exactly one closing notification, an order notification for a
\* 200 and an error notification otherwise, preceded by one signal
\* notification exactly when the payload passed validation.
C9_OneOutcomeNotification ==
    /\ pc = "Done" \/ ENABLED Next
    /\ pc = "Done" =>
          LET n == Len(notifications)
          IN /\ n = IF payload = NoPayload THEN 1 ELSE 2
             /\ notifications[n].kind = IF response.status = 200 THEN "order" ELSE "error"
             /\ n = 2 => notifications[1].kind = "signal"
             /\ Count("signal") = n - 1

C9_Witness ==
    /\ pc = "Done"
    /\ response.status = 200
    /\ Len(notifications) = 2
    /\ Len(orders) >= 1

\* C10: a flow that ends in a rejection or a failure has sent exactly one
\* error notification, with a text, by the time the response exists; a
\* flow that ends in 200 has sent none.
C10_OneErrorNotification ==
    /\ response = NoResponse => Count("error") = 0
    /\ response # NoResponse => pc = "Done"
    /\ pc = "Done" =>
          IF response.status = 200 THEN Count("error") = 0
          ELSE /\ response.status \in {400, 401, 500}
               /\ Count("error") = 1
               /\ notifications[Len(notifications)].kind = "error"
               /\ notifications[Len(notifications)].text # ""

C10_Witness ==
    /\ pc = "Done"
    /\ response.status = 500
    /\ "place_order" \in calls
    /\ Count("error") = 1

\* An Open signal in the short direction: the one that is sized in base units.
OpenSell == payload.action = "open" /\ payload.direction = Str("short")

\* The quantity notional_to_qty computes from the payload's amount and the
\* price and step it used.
SizedQty ==
    _round_step([num |-> payload.amount_usdt.n * QtyScale, den |-> sizing.price],
                sizing.lot)

\* The instrument was found, a price was there and the quantity reaches the
\* minimum order quantity.
SizingSucceeds ==
    /\ venue.listed
    /\ sizing.price > 0
    /\ SizedQty.num >= sizing.min_qty * SizedQty.den

SizingErrors == {"Symbol not found or not spot",
                 "Failed to fetch price for qty calc",
                 "amount_usdt too small"}

\* C11: when the quantity computation of an Open signal fails (symbol not
\* found, no price on either side, quantity below the minimum), the request
\* ends with a 400 and no order has been submitted for it; an Open sell gets
\* as far as order submission only when the computation succeeded.
C11_SizingFailureIs400 ==
    /\ response.error \in SizingErrors =>
          /\ pc = "Done"
          /\ payload.action = "open"
          /\ response.status = 400
          /\ orders = <<>>
          /\ accepted = 0
          /\ "place_order" \notin calls
    /\ (OpenSell /\ pc = "Done" /\ calls # {} /\ "place_order" \notin calls
           /\ outcome.state = "returned") =>
          IF SizingSucceeds
          THEN test_mode /\ response.status = 200
          ELSE /\ response.status = 400
               /\ response.error \in SizingErrors
               /\ orders = <<>>
    /\ (OpenSell /\ "place_order" \in calls) => SizingSucceeds

C11_Witness ==
    /\ pc = "Done"
    /\ OpenSell
    /\ response.status = 400
    /\ response.error = "amount_usdt too small"
    /\ "get_orderbook" \in calls
    /\ orders = <<>>

\* The instrument is not listed: the sizing ends at the first venue call.
C11_WitnessNotFound ==
    /\ pc = "Done"
    /\ OpenSell
    /\ response.error = "Symbol not found or not spot"
    /\ calls = {"get_instruments_info"}

\* notional_to_qty has returned a quantity (in either specification).
QtyReturned == sizing.err = "" /\ sizing.price > 0

\* C12: for a sell sized from amount A at reference price P with quantity
\* step S > 0, the returned quantity is the largest multiple of S that is
\* <= A / P, so that quantity x P never exceeds A; step 0.001, amount 50 and
\* price 25000 give exactly 0.002.
C12_LargestStepMultiple ==
    QtyReturned =>
        LET A == payload.amount_usdt.n * QtyScale
            P == sizing.price
            S == sizing.lot
            q == sizing.qty
        IN /\ q.den = 1
           /\ q.num >= 0
           /\ q.num % S = 0
           /\ q.num * P <= A
           /\ (q.num + S) * P > A
           /\ (payload.amount_usdt.n = 50 /\ P = 25000 /\ S * 1000 = QtyScale)
                 => q.num * 1000 = 2 * QtyScale

\* notional_to_qty got as far as a price (it returned, or raised for the
\* minimum quantity).
Priced == sizing.price > 0

\* C13: when the instrument has a minimum order notional and the
\* step-aligned quantity is worth less than it at the reference price,
\* sizing returns the smallest step-aligned quantity worth at least the
\* minimum (with an advisory note, for which the returned float has no
\* place) rather than failing or returning the smaller quantity; step
\* 0.001, minimum notional 5, amount 1 and price 25000 give 0.001.
C13_RaisedToMinNotional ==
    (Priced /\ venue.min_notional # 0
        /\ SizedQty.num * sizing.price < venue.min_notional * QtyScale) =>
        LET M == venue.min_notional * QtyScale
            P == sizing.price
            S == sizing.lot
            q == sizing.qty
        IN /\ sizing.err = ""
           /\ q.den = 1
           /\ q.num % S = 0
           /\ q.num * P >= M
           /\ (q.num - S) * P < M
           /\ ( /\ payload.amount_usdt.n = 1
                /\ P = 25000
                /\ S * 1000 = QtyScale
                /\ venue.min_notional = 5 ) => q.num * 1000 = QtyScale

\* The step-aligned quantity is below the instrument's minimum order quantity.
Undersized == Priced /\ SizedQty.num < sizing.min_qty * SizedQty.den

\* Step 0.01, minimum quantity 0.1, amount 1, price 50000.
UndersizedExample ==
    /\ sizing.lot * 100 = QtyScale
    /\ sizing.min_qty * 10 = QtyScale
    /\ payload.amount_usdt.n = 1
    /\ sizing.price = 50000

\* What every undersized sell comes to: the sizing fails with the message
\* that cites min_qty * price, the request is answered 400 and nothing is
\* submitted; a sell that is not undersized is sized to at least the minimum,
\* and only that quantity is ever submitted.
UndersizedSellRejected ==
    /\ Undersized =>
          /\ sizing.err = "amount_usdt too small"
          /\ sizing.qty = NoQty
          /\ sizing.required_usdt = sizing.min_qty * sizing.price
          /\ pc = "Done"
          /\ response.status = 400
          /\ response.error = "amount_usdt too small"
          /\ params = NoParams
          /\ orders = <<>>
          /\ accepted = 0
    /\ (Priced /\ ~Undersized) =>
          /\ sizing.err = ""
          /\ sizing.qty = SizedQty
          /\ sizing.required_usdt = 0
    /\ OpenSell =>
          \A i \in DOMAIN orders :
              /\ orders[i].qty = sizing.qty
              /\ orders[i].qty.num >= sizing.min_qty * orders[i].qty.den

\* C14, as claimed: an undersized sell fails with an error naming the
\* notional required for the minimum quantity and is never submitted, and
\* for step 0.01, minimum quantity 0.1, amount 1 and price 50000 the cited
\* notional is about 5.0 USDT.
C14_CitesAboutFive ==
    /\ UndersizedSellRejected
    /\ (Undersized /\ UndersizedExample) =>
          /\ sizing.required_usdt >= 4 * QtyScale
          /\ sizing.required_usdt <= 6 * QtyScale

\* C14, amended: as claimed, except that the notional cited for the example
\* is minimum quantity x price = 0.1 x 50000 = 5000 USDT.
C14_CitesMinQtyTimesPrice ==
    /\ UndersizedSellRejected
    /\ (Undersized /\ UndersizedExample) => sizing.required_usdt = 5000 * QtyScale

C14_Witness ==
    /\ Undersized
    /\ UndersizedExample
    /\ pc = "Done"
    /\ response.status = 400
    /\ sizing.required_usdt = 5000 * QtyScale

\* The free balance of the symbol's base asset in the wallet answer at hand.
HeldBalance == TotalQty(outcome.coins, base_ccy(payload.symbol))

\* close_position_market has the wallet answer and is about to act on it.
BalanceRead ==
    /\ pc = "get_wallet_balance"
    /\ payload.action = "close"
    /\ outcome.state = "returned"

C15_NoBalanceState ==
    /\ response.result = "no_spot_balance" =>
          /\ pc = "Done"
          /\ payload.action = "close"
          /\ response.status = 200
          /\ HeldBalance <= 0
          /\ "place_order" \notin calls
          /\ orders = <<>>
          /\ accepted = 0
    /\ payload.action = "close" =>
          \A i \in DOMAIN orders : orders[i].qty.num > 0

C15_NoBalanceStep ==
    (BalanceRead /\ HeldBalance <= 0) =>
        /\ pc' = "Done"
        /\ response'.status = 200
        /\ response'.result = "no_spot_balance"
        /\ params' = NoParams
        /\ orders' = <<>>
        /\ accepted' = 0

\* C15: for a Close signal, when the free balance of the base asset summed
\* over the accounts' coin entries is zero or negative, the outcome is the
\* no-balance status and no sell order is built or submitted.
C15_NoBalanceNoSell == []C15_NoBalanceState /\ [][C15_NoBalanceStep]_vars

C15_Witness ==
    /\ pc = "Done"
    /\ payload.action = "close"
    /\ response.result = "no_spot_balance"
    /\ outcome.coins = <<Coin("BTC", 0)>>
    /\ orders = <<>>

\* The wallet holds other coins only.
C15_WitnessOtherCoin ==
    /\ pc = "Done"
    /\ response.result = "no_spot_balance"
    /\ outcome.coins = <<Coin("USDT", 2000)>>

\* The one order instruction of a Close: a market sell of the given quantity.
MarketSellOf(qty) ==
    [NoParams EXCEPT !.symbol = payload.symbol, !.side = "Sell", !.orderType = "Market",
                     !.timeInForce = "IOC", !.qty = [num |-> qty, den |-> 1]]

C16_CloseState ==
    payload.action = "close" =>
        /\ calls \subseteq {"get_wallet_balance", "place_order"}
        /\ sizing = NoSizing
        /\ response.error # OutOfBoundsText
        /\ "place_order" \in calls => "get_wallet_balance" \in calls
        /\ params # NoParams =>
              /\ ~test_mode
              /\ params.qty.num > 0
              /\ params = MarketSellOf(params.qty.num)
        /\ \A i \in DOMAIN orders : orders[i] = params
        /\ pc = "place_order" => Len(orders) = invoked
        /\ Len(orders) <= RetryRange
        /\ raised = NoExc => Len(orders) <= 1
        /\ response.result = "closing_spot" => Len(orders) >= 1

C16_CloseStep ==
    /\ (pc = "Validated" /\ payload.action = "close") =>
          IF test_mode
          THEN pc' = "Done" /\ response'.result = "SIMULATED_CLOSE" /\ calls' = {}
          ELSE pc' = "get_wallet_balance" /\ params' = NoParams
    /\ (BalanceRead /\ HeldBalance > 0) =>
          /\ pc' = "place_order"
          /\ params' = MarketSellOf(HeldBalance)
          /\ orders' = <<>>
    /\ (payload.action = "close" /\ params # NoParams) => params' = params

OpenOrderParams ==
    LET buy == payload.direction = Str("long")
    IN OrderParams(payload.symbol,
                   IF buy THEN "buy" ELSE "sell",
                   payload.order_type,
                   IF buy THEN [num |-> payload.amount_usdt.n * QtyScale, den |-> 1]
                          ELSE sizing.qty,
                   payload.limit_price,
                   IF payload.order_type = "market" THEN "IOC" ELSE "GTC")

\* C17: in test mode neither place_order nor close_position_market invokes
\* the client (no place_order, no get_wallet_balance, nothing reaches the
\* venue as an order), and the result is fixed by the arguments: SIMULATED
\* with the request built from them for an Open, SIMULATED_CLOSE for a
\* Close, whatever the venue lists or answers.
C17_SimulatedSubmission ==
    test_mode =>
        /\ "place_order" \notin calls
        /\ "get_wallet_balance" \notin calls
        /\ orders = <<>>
        /\ accepted = 0
        /\ response.status \notin {0, 200} => params = NoParams
        /\ (pc = "Done" /\ response.status = 200) =>
              IF payload.action = "close"
              THEN /\ response.result = "SIMULATED_CLOSE"
                   /\ params = NoParams
                   /\ calls = {}
              ELSE /\ response.result = "SIMULATED"
                   /\ params = OpenOrderParams
        /\ (payload # NoPayload /\ pc \notin {"Validated", "Done"}) =>
              /\ OpenSell
              /\ pc \in {"get_instruments_info", "get_orderbook", "get_tickers"}

C17_Witness ==
    /\ test_mode
    /\ pc = "Done"
    /\ response.result = "SIMULATED"
    /\ params.side = "Sell"
    /\ params.qty.num > 0
    /\ "get_orderbook" \in calls
    /\ orders = <<>>

\* A simulated close: nothing is read from the wallet.
C17_WitnessClose ==
    /\ test_mode
    /\ pc = "Done"
    /\ response.result = "SIMULATED_CLOSE"
    /\ calls = {}

\* The request at hand is authentic: authentication is disabled, or its
\* signature is the HMAC of the body and its timestamp, if any, is an integer
\* within the skew of the clock reading, or (no signature) the body carries
\* the secret as its key.
Authentic ==
    /\ request # Consumed
    /\ ~(Truthy(request.ts_header) /\ IntRaises(request.ts_header))
    /\ \/ WEBHOOK_AUTH_DISABLED
       \/ /\ request.sig # NoSig
          /\ ValidSignature
          /\ validate_timestamp(request.ts_header, WEBHOOK_MAX_SKEW_SECONDS, now_ms)
       \/ /\ request.sig = NoSig
          /\ request.raw.kind = "object"
          /\ request.raw.f.key = Str(WEBHOOK_SECRET)

\* C18: an authentic request whose payload is turned down (missing action
\* or symbol, unknown action, order type or direction, limit order without
\* or with a non-numeric limit_price, JSON that is no object, bytes that are
\* no JSON) is answered 400 with a reason, never 500.
C18_MalformedPayloadIs400 ==
    (pc = "Done" /\ Authentic /\ payload = NoPayload) =>
        /\ response.status = 400
        /\ response.error \notin {"", "internal_error"}

\* The request ended on a retried client call that raised on its last
\* attempt: a venue fault that outlasted the retries.
EndedOnVenueFault == pc = "Done" /\ outcome.state = "raised"

\* C19: a venue fault that outlasts the retries, in whichever call (the
\* instrument or quote fetch of the sizing, the wallet read, the order
\* submission), ends the request with 500 and the body internal_error, which
\* says nothing of the exception.
C19_VenueFaultIs500 ==
    EndedOnVenueFault =>
        /\ outcome.exc.class \in VenueErrorClasses
        /\ response.status = 500
        /\ response.error = "internal_error"
        /\ response.result = ""

\* C20: for every order built for an Open signal the side is Buy exactly
\* when the direction is long and Sell exactly when it is short, the
\* direction being long when the body has none, and the time in force is
\* IOC exactly when the order type is Market and GTC exactly when it is
\* Limit; every order submitted is the one built.
C20_SideAndTimeInForce ==
    payload.action = "open" =>
        /\ payload.direction \in {Str("long"), Str("short")}
        /\ payload.order_type \in {"market", "limit"}
        /\ (pc = "Validated" /\ data.f.direction = Absent) =>
               payload.direction = Str("long")
        /\ params # NoParams =>
              /\ params.side = "Buy" <=> payload.direction = Str("long")
              /\ params.side = "Sell" <=> payload.direction = Str("short")
              /\ params.orderType = "Market" <=> payload.order_type = "market"
              /\ params.orderType = "Limit" <=> payload.order_type = "limit"
              /\ params.timeInForce = "IOC" <=> params.orderType = "Market"
              /\ params.timeInForce = "GTC" <=> params.orderType = "Limit"
        /\ orders # <<>> => params # NoParams
        /\ \A i \in DOMAIN orders : orders[i] = params

C20_Witness ==
    /\ payload.action = "open"
    /\ Len(orders) >= 1
    /\ orders[1].side = "Sell"
    /\ orders[1].orderType = "Limit"
    /\ orders[1].timeInForce = "GTC"

\* A market buy for a body without a direction.
C20_WitnessDefaultLong ==
    /\ payload.action = "open"
    /\ payload.direction = Str("long")
    /\ Len(orders) >= 1
    /\ orders[1].side = "Buy"
    /\ orders[1].timeInForce = "IOC"

\* The order built for the Open signal at hand is a buy.
OpenBuyBuilt == payload.action = "open" /\ params # NoParams /\ params.side = "Buy"

\* C21: the notional amount goes out as the order size, marked as a quote
\* amount, only for a market buy; the quantity of a limit buy is a base
\* quantity derived from notional / limit price (worth no more than the
\* notional at that price) and step-aligned, never the raw notional amount.
C21_PassThroughOnlyMarketBuy ==
    /\ (payload.action = "open" /\ params # NoParams) =>
          (params.marketUnit = "quote" <=>
              (params.side = "Buy" /\ params.orderType = "Market"))
    /\ (OpenBuyBuilt /\ params.orderType = "Market") =>
          params.qty = [num |-> payload.amount_usdt.n * QtyScale, den |-> 1]
    /\ (OpenBuyBuilt /\ params.orderType = "Limit") =>
          /\ params.qty # [num |-> payload.amount_usdt.n * QtyScale, den |-> 1]
          /\ params.qty.den = 1
          /\ params.qty.num * params.price.n <= payload.amount_usdt.n * QtyScale
          /\ venue.listed => params.qty.num % venue.lot = 0
    /\ \A i \in DOMAIN orders : orders[i] = params

\* get_best_price has the order book's answer (or its last exception) and is
\* about to act on it.
OrderbookEnded == pc = "get_orderbook" /\ RetryEnded

\* The order book call failed: it raised on each of its attempts.
OrderbookFailed == outcome.state = "raised" /\ invoked = RetryRange

\* The order book answered with neither a bid nor an ask.
OrderbookEmpty ==
    outcome.state = "returned" /\ outcome.bid = Absent /\ outcome.ask = Absent

C22_QuoteState ==
    /\ outcome.state = "raised" => invoked = RetryRange
    /\ "get_tickers" \in calls => "get_orderbook" \in calls
    /\ pc = "get_orderbook" => "get_tickers" \notin calls
    /\ (pc = "get_tickers" /\ invoked = 0) => "get_tickers" \notin calls

C22_QuoteStep ==
    /\ OrderbookEnded =>
          IF OrderbookFailed \/ OrderbookEmpty
          THEN /\ pc' = "get_tickers"
               /\ invoked' = 0
               /\ sizing' = sizing
          ELSE /\ pc' # "get_tickers"
               /\ sizing'.bid = outcome.bid
               /\ sizing'.ask = outcome.ask
               /\ sizing'.bid # Absent \/ sizing'.ask # Absent
               /\ "get_tickers" \notin calls'
    /\ (pc' = "get_tickers" /\ pc # "get_tickers") =>
          /\ OrderbookEnded
          /\ OrderbookFailed \/ OrderbookEmpty
    /\ "get_tickers" \in calls' =>
          \/ "get_tickers" \in calls
          \/ pc = "get_tickers" /\ invoked = 0
    /\ (pc = "get_tickers" /\ outcome.state = "returned" /\ ~outcome.found) =>
          /\ sizing'.bid = Absent
          /\ sizing'.ask = Absent

\* C22: get_best_price goes on to the tickers endpoint exactly when the
\* order book call raised on all of its attempts or answered with neither a
\* bid nor an ask; an order book with at least one side is the quote, and
\* no ticker call follows; an empty ticker list gives a quote with neither
\* side.
C22_TickerFallback == []C22_QuoteState /\ [][C22_QuoteStep]_vars

\* The order book call was given up after its attempts and the ticker list
\* was empty too.
C22_Witness ==
    /\ calls = {"get_instruments_info", "get_orderbook", "get_tickers"}
    /\ pc = "Done"
    /\ sizing.bid = Absent
    /\ sizing.ask = Absent
    /\ sizing.err = "Failed to fetch price for qty calc"

\* One side of the order book was enough: no ticker call.
C22_WitnessOneSide ==
    /\ sizing.bid = Absent
    /\ sizing.ask = Num(25000)
    /\ "get_tickers" \notin calls
    /\ "place_order" \in calls

PricingError == "Failed to fetch price for qty calc"

\* A side of the quote is available: it is there and it is not zero.
Available(side) == Truthy(side)

\* The sell-direction calculation: the best bid when it is available, the
\* best ask when only that is, and the pricing error with no quantity and no
\* order when neither is.
SellReferencePrice ==
    OpenSell =>
        /\ Available(sizing.bid) => sizing.price = sizing.bid.n
        /\ (~Available(sizing.bid) /\ Available(sizing.ask)) =>
              sizing.price = sizing.ask.n
        /\ sizing.price # 0 => Available(sizing.bid) \/ Available(sizing.ask)
        /\ sizing.err = PricingError =>
              /\ ~Available(sizing.bid)
              /\ ~Available(sizing.ask)
              /\ sizing.price = 0
              /\ sizing.qty = NoQty
              /\ pc = "Done"
              /\ response.status = 400
              /\ params = NoParams
              /\ orders = <<>>
        /\ (sizing.price = 0 /\ sizing.err = "") =>
              /\ sizing.bid = Absent
              /\ sizing.ask = Absent
              /\ params = NoParams

\* The buy-direction calculation, where the order size is a base quantity
\* (a limit buy): the best ask.
BuyReferencePrice ==
    (OpenBuyBuilt /\ params.orderType = "Limit") =>
        /\ Available(sizing.ask)
        /\ sizing.price = sizing.ask.n

\* C23: the reference price of the sizing is the best ask for a buy and the
\* best bid for a sell, and when neither side of the quote is available
\* (absent or zero) the sizing fails with the pricing error and returns no
\* quantity.
C23_ReferencePrice == SellReferencePrice /\ BuyReferencePrice

\* C24: handling one Open signal never has the venue accept more than one
\* order: an order the venue accepted is not submitted again by the retry
\* around client.place_order, also when the attempt that was accepted
\* raised at the client (its response was lost).
C24_AtMostOneAccepted ==
    payload.action = "open" => accepted <= 1

\* What the account held of the base asset when the signals arrived.
HeldAtArrival == account.free + account.sold

\* The sell a handler has built for a Close and is submitting, or has
\* submitted with success.
SellOf(locals) ==
    IF /\ locals.payload.action = "close"
       /\ locals.params # NoParams
       /\ locals.pc = "place_order" \/ locals.response.status = 200
    THEN locals.params.qty.num ELSE 0

\* C25: with two Close signals for the same symbol handled on two threads,
\* the sells the handlers build and submit never total more than the balance
\* of the base asset the account held: no interleaving of the balance reads
\* and the submissions has both handlers sell the full balance.
C25_NoDoubleSell ==
    account.tracked => SellOf(Locals) + SellOf(peer) <= HeldAtArrival

====
